---- MODULE Spec2Model ----
(***************************************************************************)
(* Model of integration-tests/bats/server_multiclient_test.py: a staged,   *)
(* two-worker harness that drives DoltConnection sessions through a        *)
(* branch store updated by compare-and-swap (UPDATE dolt_branches ... ).   *)
(*                                                                         *)
(* The harness (queue, workers, stage loop, work functions) is translated  *)
(* from the Python source.  The SQL server behind DoltConnection.query is  *)
(* not in the Python sources; its statements are modelled from the         *)
(* specification's Ref Store Protocol (section 4.2).                       *)
(*                                                                         *)
(* Stages, work items and work functions are numbered from 1 here; the     *)
(* Python source numbers stages from 0.                                    *)
(***************************************************************************)
EXTENDS Integers, Sequences, FiniteSets, TLC

\* ---------------------------------------------------------------- bounds
\* Number of transport/query errors and connection failures the environment
\* may inject in one run.
MaxFaults == 2

\* ------------------------------------------------------ program constants
MAX_SIMULTANEOUS_CONNECTIONS == 2

UPDATE_BRANCH_FAIL_MSG == "Failed to update branch"

Conns == 0 .. (MAX_SIMULTANEOUS_CONNECTIONS - 1)
Workers == 1 .. MAX_SIMULTANEOUS_CONNECTIONS

BranchNames == {"main", "feature"}

\* ------------------------------------------------------------- variables
VARIABLES
    work_item_stages,  \* the script: a sequence of stages, each a sequence of WorkItems
    orch,              \* the main thread's position in the stage loop
    work_item,         \* the module-global name work_item (bound by the main thread's loops)
    queue,             \* WORK_QUEUE: the items put and not yet taken
    unfinished,        \* WORK_QUEUE.unfinished_tasks
    exception,         \* WorkItem.exception of every item
    wk,                \* each worker thread's position
    sess,              \* each DoltConnection and the server-side session behind it
    commits,           \* the server's commit store: hash h is commits[h]
    branches,          \* dolt_branches: name -> hash (0: no such branch)
    faults,            \* injected failures so far
    stderr,            \* what was printed to sys.stderr
    exitCode,          \* -1 while the process runs, else its exit code
    istate,            \* history: "new", "queued", "running" or "finished" per item
    trace,             \* history: the work functions started, per item, in order
    raised,            \* history: every exception that left a work function
    lastCas,           \* history: the last commit statement each session had evaluated
    advances,          \* history: every accepted branch update
    commitLog,         \* history: how every commit statement of a work function ended
    lastCreate,        \* history: the last create_branch each session had evaluated
    snap,              \* history: a session's table and conflict set when resolve_theirs began
    puts,              \* history: how often each item was put on WORK_QUEUE
    gets,              \* history: the workers that took each item from WORK_QUEUE
    rejectedOn,        \* history: per session, the branches that rejected its commit since its last SET @@repo1_head=HASHOF(...)
    conn,              \* pytest.py: a session object used on its own (class and self.cnx)
    sessCall,          \* pytest.py: the connect / query / close call in progress on conn
    proc,              \* pytest.py: the child process of wait_for_connection
    waiter,            \* pytest.py: the caller of wait_for_connection
    fs,                \* symlink.py: the file system, path -> node
    force              \* symlink.py: the call of Force in progress

vars == << work_item_stages, orch, work_item, queue, unfinished, exception, wk,
           sess, commits, branches, faults, stderr, exitCode, istate, trace,
           raised, lastCas, advances, commitLog, lastCreate, snap, puts, gets,
           rejectedOn, conn, sessCall, proc, waiter, fs, force >>

harnessVars == << orch, work_item, queue, unfinished, exception, stderr, exitCode >>
serverVars == << sess, commits, branches >>
casVars == << lastCas, advances >>
logVars == << commitLog, lastCreate, snap, puts, gets, rejectedOn >>
libVars == << conn, sessCall, proc, waiter, fs, force >>

\* ------------------------------------------------------------ work items
WorkItem(dc, funcs) == [dc |-> dc, work_funcs |-> funcs]

\* The test script of the source.
Script ==
    << << WorkItem(0, << "connect", "create_tables" >>) >>,
       << WorkItem(0, << "seed_main" >>),
          WorkItem(1, << "connect", "duplicate_table_create" >>) >>,
       << WorkItem(0, << "modify_pk0_on_main_and_commit" >>),
          WorkItem(1, << "modify_pk0_on_main_no_commit" >>) >>,
       << WorkItem(1, << "fail_to_commit", "commit_to_feature", "merge_resolve_commit" >>) >> >>

ItemsOf(stages) ==
    UNION { { << s, k >> : k \in 1 .. Len(stages[s]) } : s \in 1 .. Len(stages) }
Items == ItemsOf(work_item_stages)
ItemRec(it) == work_item_stages[it[1]][it[2]]
StageItems(s) == { it \in Items : it[1] = s }

NoItem == << 0, 0 >>
\* An exception object: its message and where it was raised (item, function).
Exc(msg, it, fi) == [msg |-> msg, by |-> it, fi |-> fi]
None == Exc("None", NoItem, 0)

\* ------------------------------------------------- rows, tables, commits
\* A row of table test is << pk, c1, c2 >>; Null is SQL NULL (no row).
Null == << >>
row(pk, c1, c2) == << pk, c1, c2 >>

NoTable == [exists |-> FALSE, rows |-> {}]
RowOf(tbl, pk) ==
    IF \E r \in tbl.rows : r[1] = pk
    THEN CHOOSE r \in tbl.rows : r[1] = pk
    ELSE Null
PksOf(tbl) == { r[1] : r \in tbl.rows }

SeedRows == { row(0, 0, 0), row(1, 1, 1), row(2, 2, 2) }
MergedRows == { row(0, 1, 0), row(1, 1, 1), row(2, 2, 2) }

NoSession == [cnx |-> FALSE, head |-> 0, root |-> NoTable, conflicts |-> {}]

SetMax(S) == CHOOSE x \in S : \A y \in S : y <= x

RECURSIVE Ancestors(_, _)
Ancestors(cm, h) ==
    {h} \cup UNION { Ancestors(cm, cm[h].parents[i]) : i \in 1 .. Len(cm[h].parents) }

MergeBase(cm, a, b) == SetMax(Ancestors(cm, a) \cap Ancestors(cm, b))

\* Three-way merge of one row: base b, ours o, theirs t.
RowConflicts(b, o, t) == o # t /\ o # b /\ t # b
MergeRow(b, o, t) == IF o = t THEN o ELSE IF o = b THEN t ELSE o

MergeTables(base, ours, theirs) ==
    LET pks == PksOf(base) \cup PksOf(ours) \cup PksOf(theirs)
        m(pk) == MergeRow(RowOf(base, pk), RowOf(ours, pk), RowOf(theirs, pk))
    IN [exists |-> ours.exists \/ theirs.exists,
        rows |-> { m(pk) : pk \in pks } \ {Null}]

MergeConflicts(base, ours, theirs) ==
    LET pks == PksOf(base) \cup PksOf(ours) \cup PksOf(theirs)
    IN { [base |-> RowOf(base, pk), ours |-> RowOf(ours, pk), theirs |-> RowOf(theirs, pk)] :
            pk \in { q \in pks : RowConflicts(RowOf(base, q), RowOf(ours, q), RowOf(theirs, q)) } }

\* ------------------------------------------------------------ statements
\* One call of DoltConnection.connect / DoltConnection.query (or a raise) of
\* a work function.  ref: the branch or ref named; val: the value written;
\* exp: the expected-hash expressions of a commit.
Stmt(op, ref, val, exp) == [op |-> op, ref |-> ref, val |-> val, exp |-> exp]

SetHead(ref) == Stmt("set_head", ref, 0, << >>)
CommitStmt(branch, exp) == Stmt("commit", branch, 0, exp)

\* Faulty variant: the session is not re-bound after the update.
commit_without_rebind(expected_hashes, branch_name) ==
    << CommitStmt(branch_name, expected_hashes) >>

\* commit_and_update_branch: the UPDATE, the row-count test, the re-bind.
commit_and_update_branch(expected_hashes, branch_name) ==
    << CommitStmt(branch_name, expected_hashes), SetHead(branch_name) >>

\* Faulty variant: the incoming rows are never written.
resolve_theirs_skip_replace ==
    << Stmt("delete_theirs", "", 0, << >>),
       Stmt("clear_conflicts", "", 0, << >>) >>

\* Faulty variant: the conflict set is never cleared.
resolve_theirs_skip_clear ==
    << Stmt("replace_theirs", "", 0, << >>),
       Stmt("delete_theirs", "", 0, << >>) >>

resolve_theirs ==
    << Stmt("replace_theirs", "", 0, << >>),
       Stmt("delete_theirs", "", 0, << >>),
       Stmt("clear_conflicts", "", 0, << >>) >>

create_branch(branch_name) == << Stmt("create_branch", branch_name, 0, << >>) >>

Body(f) ==
    CASE f = "connect" -> << Stmt("connect", "", 0, << >>) >>
      [] f = "create_tables" ->
            << SetHead("main"), Stmt("create_table", "", 0, << >>) >>
            \o commit_and_update_branch(<< "@@repo1_head" >>, "main")
            \o << Stmt("check_tables", "", 0, << >>) >>
      [] f = "duplicate_table_create" ->
            << SetHead("main"), Stmt("expect_error_create_table", "", 0, << >>) >>
      [] f = "seed_main" ->
            << SetHead("main"), Stmt("insert_seed", "", 0, << >>) >>
            \o commit_and_update_branch(<< "@@repo1_head" >>, "main")
            \o << Stmt("check_rows", "", SeedRows, << >>) >>
      [] f = "modify_pk0_on_main_and_commit" ->
            << SetHead("main"), Stmt("update_pk0", "", 1, << >>) >>
            \o commit_and_update_branch(<< "@@repo1_head" >>, "main")
      [] f = "modify_pk0_on_main_no_commit" ->
            << SetHead("main"), Stmt("update_pk0", "", 2, << >>) >>
      [] f = "fail_to_commit" ->
            commit_and_update_branch(<< "@@repo1_head" >>, "main")
            \o << Stmt("raise", "Failed to fail commit", 0, << >>) >>
      [] f = "commit_to_feature" ->
            create_branch("feature")
            \o commit_and_update_branch(<< "@@repo1_head" >>, "feature")
      [] f = "resolve_theirs" -> resolve_theirs
      [] f = "merge_resolve_commit" ->
            << Stmt("merge", "main", 0, << >>), Stmt("check_conflicts", "", 1, << >>) >>
            \o resolve_theirs
            \o << Stmt("check_rows", "", MergedRows, << >>) >>
            \o commit_and_update_branch(<< "HEAD^1", "HEAD^2" >>, "main")

\* Faulty variant: the except clause of fail_to_commit swallows everything.
CaughtAll(f, msg) == f = "fail_to_commit"

\* fail_to_commit's except clause: the rejection is swallowed, anything else
\* is raised again.  No other work function catches.
Caught(f, msg) == f = "fail_to_commit" /\ msg = UPDATE_BRANCH_FAIL_MSG

\* ------------------------------------------------- the server statements
\* What one statement returns: err is "" or the message of the exception
\* DoltConnection.query raises; rc is cursor.rowcount; s, commits and
\* branches are the session and the store after the statement.
Res(err, rc, s, cm, br) == [err |-> err, rc |-> rc, s |-> s, commits |-> cm, branches |-> br]
QueryError(s, cm, br) == Res("QueryError", -1, s, cm, br)

\* SET @@repo1_head=HASHOF(ref): bind the session to ref's current revision.
SrvSetHead(s, cm, br, ref) ==
    IF br[ref] = 0 THEN QueryError(s, cm, br)
    ELSE Res("", 0, [s EXCEPT !.head = br[ref], !.root = cm[br[ref]].tbl, !.conflicts = {}],
             cm, br)

\* CREATE TABLE test
SrvCreateTable(s, cm, br) ==
    IF s.root.exists THEN QueryError(s, cm, br)
    ELSE Res("", 0, [s EXCEPT !.root = [exists |-> TRUE, rows |-> {}]], cm, br)

\* INSERT INTO test VALUES (0,0,0),(1,1,1),(2,2,2)
SrvInsertSeed(s, cm, br) ==
    IF ~s.root.exists \/ PksOf(s.root) \cap PksOf([rows |-> SeedRows]) # {}
    THEN QueryError(s, cm, br)
    ELSE Res("", Cardinality(SeedRows), [s EXCEPT !.root.rows = @ \cup SeedRows], cm, br)

\* UPDATE test SET c1=v WHERE pk=0
SrvUpdatePk0(s, cm, br, v) ==
    IF ~s.root.exists THEN QueryError(s, cm, br)
    ELSE LET old == { r \in s.root.rows : r[1] = 0 }
             new == { row(r[1], v, r[3]) : r \in old }
         IN Res("", Cardinality({ r \in old : r[2] # v }),
                [s EXCEPT !.root.rows = (@ \ old) \cup new], cm, br)

\* The value of one expected-hash expression in session s: @@repo1_head is
\* the session's head, HASHOF("HEAD^n") the n-th parent of the head commit
\* (0, equal to no branch hash, when there is none).
ExpectedValue(s, cm, e) ==
    CASE e = "@@repo1_head" -> s.head
      [] e = "HEAD^1" -> IF s.head # 0 /\ Len(cm[s.head].parents) >= 1
                         THEN cm[s.head].parents[1] ELSE 0
      [] e = "HEAD^2" -> IF s.head # 0 /\ Len(cm[s.head].parents) >= 2
                         THEN cm[s.head].parents[2] ELSE 0

\* UPDATE dolt_branches SET hash = Commit("-am", msg) WHERE name = branch AND
\* hash is one of accepted.  Commit(...) is evaluated only for a matching row:
\* it builds a new revision from the session's root on top of its head, and
\* fails while the session has unresolved conflicts.
SrvUpdateBranch(s, cm, br, branch, accepted) ==
    IF br[branch] = 0 \/ br[branch] \notin accepted THEN Res("", 0, s, cm, br)
    ELSE IF s.conflicts # {} \/ s.head = 0 THEN QueryError(s, cm, br)
    ELSE LET new == [parents |-> << s.head >>, tbl |-> s.root]
         IN Res("", 1, s, Append(cm, new), [br EXCEPT ![branch] = Len(cm) + 1])

\* INSERT INTO dolt_branches (name, hash) VALUES (name, @@repo1_head)
SrvInsertBranch(s, cm, br, name) ==
    IF br[name] # 0 \/ s.head = 0 THEN QueryError(s, cm, br)
    ELSE Res("", 1, s, cm, [br EXCEPT ![name] = s.head])

\* SET @@repo1_head=Merge(ref): a merge revision with parents (head, ref);
\* rows changed on both sides stay as ours and are listed as conflicts.
SrvMerge(s, cm, br, ref) ==
    IF br[ref] = 0 \/ s.head = 0 THEN QueryError(s, cm, br)
    ELSE LET base == cm[MergeBase(cm, s.head, br[ref])].tbl
             theirs == cm[br[ref]].tbl
             merged == MergeTables(base, s.root, theirs)
             new == [parents |-> << s.head, br[ref] >>, tbl |-> merged]
         IN Res("", 0,
                [s EXCEPT !.head = Len(cm) + 1, !.root = merged,
                          !.conflicts = MergeConflicts(base, s.root, theirs)],
                Append(cm, new), br)

\* REPLACE INTO test SELECT their_* FROM dolt_conflicts_test WHERE their_pk IS NOT NULL
SrvReplaceTheirs(s, cm, br) ==
    LET inc == { c.theirs : c \in { d \in s.conflicts : d.theirs # Null } }
        gone == { r \in s.root.rows : r[1] \in { t[1] : t \in inc } }
    IN Res("", Cardinality(inc), [s EXCEPT !.root.rows = (@ \ gone) \cup inc], cm, br)

\* DELETE FROM test WHERE pk in (SELECT base_pk FROM dolt_conflicts_test WHERE their_pk IS NULL)
SrvDeleteTheirs(s, cm, br) ==
    LET pks == { c.base[1] : c \in { d \in s.conflicts : d.theirs = Null /\ d.base # Null } }
        gone == { r \in s.root.rows : r[1] \in pks }
    IN Res("", Cardinality(gone), [s EXCEPT !.root.rows = @ \ gone], cm, br)

\* DELETE FROM dolt_conflicts_test
SrvClearConflicts(s, cm, br) ==
    Res("", Cardinality(s.conflicts), [s EXCEPT !.conflicts = {}], cm, br)


\* Faulty variant: the WHERE clause lacks the hash test, any hash passes.
expected_hash_any(s, cm, expected_hashes) == 0 .. Len(cm)

\* Faulty variant: the loop keeps only the first expected hash.
expected_hash_first_only(s, cm, expected_hashes) ==
    { ExpectedValue(s, cm, expected_hashes[1]) }

\* ------------------------------------------------ the client-side helpers
\* commit_and_update_branch builds "(hash = e1 or hash = e2 ...)": the set of
\* hashes the WHERE clause accepts.
expected_hash(s, cm, expected_hashes) ==
    { ExpectedValue(s, cm, expected_hashes[i]) : i \in 1 .. Len(expected_hashes) }


\* Faulty variant: the wrong comparison, a row count of 0 passes.
UpdateRejectedAboveOne(row_count) == row_count > 1

\* commit_and_update_branch: if row_count != 1: raise Exception(UPDATE_BRANCH_FAIL_MSG)
UpdateRejected(row_count) == row_count # 1

\* What a result becomes once the caller's test of the row count has run.
Checked(res, bad, msg) == IF res.err = "" /\ bad THEN [res EXCEPT !.err = msg] ELSE res

\* query_and_test_results: raise unless results = expected.
TestResults(s, cm, br, same) ==
    Res(IF same THEN "" ELSE "Unexpected results", 0, s, cm, br)

\* query_with_expected_error: the bare except: swallows the query's error
\* and the "should have failed" exception alike.
query_with_expected_error(res) == [res EXCEPT !.err = ""]

\* The effect of the statement stmt of a work function on a connected session.
\* Faulty variant: the INSERT's error is swallowed, a taken name passes.
CreateBranchIfAbsent(s, cm, br, name) ==
    query_with_expected_error(SrvInsertBranch(s, cm, br, name))

\* Faulty variant: the new branch gets main's current hash, not the session's
\* head.
CreateBranchAtMain(s, cm, br, name) ==
    LET r == SrvInsertBranch([s EXCEPT !.head = br["main"]], cm, br, name)
    IN Checked([r EXCEPT !.s = s], r.rc # 1, "Failed to create branch")

\* create_branch: the INSERT INTO dolt_branches through query, which raises
\* the server's error again, and the test of the row count.
CreateBranchCall(s, cm, br, name) ==
    LET r == SrvInsertBranch(s, cm, br, name)
    IN Checked(r, r.rc # 1, "Failed to create branch")

Exec(stmt, s, cm, br) ==
    CASE stmt.op = "set_head" -> SrvSetHead(s, cm, br, stmt.ref)
      [] stmt.op = "create_table" -> SrvCreateTable(s, cm, br)
      [] stmt.op = "expect_error_create_table" ->
            query_with_expected_error(SrvCreateTable(s, cm, br))
      [] stmt.op = "insert_seed" ->
            LET r == SrvInsertSeed(s, cm, br)
            IN Checked(r, r.rc # 3, "Failed to update rows")
      [] stmt.op = "update_pk0" -> SrvUpdatePk0(s, cm, br, stmt.val)
      [] stmt.op = "commit" ->
            LET r == SrvUpdateBranch(s, cm, br, stmt.ref, expected_hash(s, cm, stmt.exp))
            IN Checked(r, UpdateRejected(r.rc), UPDATE_BRANCH_FAIL_MSG)
      [] stmt.op = "create_branch" -> CreateBranchCall(s, cm, br, stmt.ref)
      [] stmt.op = "merge" -> SrvMerge(s, cm, br, stmt.ref)
      [] stmt.op = "check_tables" -> TestResults(s, cm, br, s.root.exists)
      [] stmt.op = "check_rows" ->
            IF ~s.root.exists THEN QueryError(s, cm, br)
            ELSE TestResults(s, cm, br, s.root.rows = stmt.val)
      [] stmt.op = "check_conflicts" ->
            TestResults(s, cm, br, Cardinality(s.conflicts) = stmt.val)
      [] stmt.op = "replace_theirs" -> SrvReplaceTheirs(s, cm, br)
      [] stmt.op = "delete_theirs" -> SrvDeleteTheirs(s, cm, br)
      [] stmt.op = "clear_conflicts" -> SrvClearConflicts(s, cm, br)
      [] stmt.op = "raise" -> Res(stmt.ref, 0, s, cm, br)

\* DoltConnection.query on a connection that was never connected: self.cnx is
\* None, cnx.cursor() raises AttributeError, which query raises again.
Query(stmt, s, cm, br) ==
    IF stmt.op = "raise" \/ s.cnx THEN Exec(stmt, s, cm, br)
    ELSE IF stmt.op = "expect_error_create_table"
         THEN query_with_expected_error(Res("AttributeError", -1, s, cm, br))
         ELSE Res("AttributeError", -1, s, cm, br)

\* ------------------------------------------------------------ initial state
Idle == [pc |-> "get", item |-> NoItem, fi |-> 0, si |-> 0, e |-> None, tgt |-> NoItem]
NoCas == [branch |-> "", before |-> 0, expvals |-> {}, rc |-> -1, after |-> 0, err |-> "",
          head |-> 0]
NoCreate == [name |-> "", before |-> 0, after |-> 0, head |-> 0, err |-> "", refs |-> {}]
NoSnap == [taken |-> FALSE, rows |-> {}, conflicts |-> {}]

\* The state after the module's start-up code, with the sessions as given.
HarnessInit(stages, sessions, cm, br) ==
    /\ work_item_stages = stages
    /\ orch = [pc |-> "bind", stage |-> 1, k |-> 1]
    /\ work_item = NoItem
    /\ queue = << >>
    /\ unfinished = 0
    /\ exception = [it \in ItemsOf(stages) |-> None]
    /\ wk = [w \in Workers |-> Idle]
    /\ sess = sessions
    /\ commits = cm
    /\ branches = br
    /\ faults = 0
    /\ stderr = << >>
    /\ exitCode = -1
    /\ istate = [it \in ItemsOf(stages) |-> "new"]
    /\ trace = [it \in ItemsOf(stages) |-> << >>]
    /\ raised = {}
    /\ lastCas = [c \in Conns |-> NoCas]
    /\ advances = {}
    /\ commitLog = {}
    /\ lastCreate = [c \in Conns |-> NoCreate]
    /\ snap = [c \in Conns |-> NoSnap]
    /\ puts = [it \in ItemsOf(stages) |-> 0]
    /\ gets = [it \in ItemsOf(stages) |-> << >>]
    /\ rejectedOn = [c \in Conns |-> {}]

\* Nothing of pytest.py's stand-alone entry points or of symlink.py is in use.
Paths == {"a", "b", "link"}
Absent == [kind |-> "absent", to |-> ""]
NoConn == [cls |-> "DoltConnection", cnx |-> "None"]
NoCall == [op |-> "none", pc |-> "idle", attempts |-> 0, failed |-> 0, outcome |-> "",
           exit_on_err |-> FALSE]
NoProc == [pc |-> "none", exitcode |-> "None", attempts |-> 0, connected |-> FALSE]
NoWaiter == [pc |-> "idle", timedOut |-> FALSE, sawExit |-> "None"]
NoForce == [pc |-> "idle", source |-> "", linkName |-> "", result |-> "",
            was |-> [p \in Paths |-> Absent]]

SessionIdle == conn = NoConn /\ sessCall = NoCall
WaitIdle == proc = NoProc /\ waiter = NoWaiter
SymlinkIdle == fs = [p \in Paths |-> Absent] /\ force = NoForce

InitFrom(stages, sessions, cm, br) ==
    HarnessInit(stages, sessions, cm, br) /\ SessionIdle /\ WaitIdle /\ SymlinkIdle

\* A new repository: one empty root commit, main on it, nobody connected.
NewStore == << [parents |-> << >>, tbl |-> NoTable] >>
NewBranches == [b \in BranchNames |-> IF b = "main" THEN 1 ELSE 0]

InitWith(stages) == InitFrom(stages, [c \in Conns |-> NoSession], NewStore, NewBranches)

Init == InitWith(Script)

Running == exitCode = -1

\* ---------------------------------------------------------- the stage loop
NumStages == Len(work_item_stages)
NumItems(s) == Len(work_item_stages[s])

\* for work_item in work_items: (the enqueue loop binds the global name)
OrchBind ==
    /\ Running /\ orch.pc = "bind"
    /\ work_item' = << orch.stage, orch.k >>
    /\ orch' = [orch EXCEPT !.pc = "put"]
    /\ UNCHANGED << work_item_stages, libVars, queue, unfinished, exception, wk, stderr, exitCode,
                    faults, istate, trace, raised >>
    /\ UNCHANGED serverVars /\ UNCHANGED casVars /\ UNCHANGED logVars

\* WORK_QUEUE.put(work_item)
OrchPut ==
    /\ Running /\ orch.pc = "put"
    /\ queue' = Append(queue, work_item)
    /\ unfinished' = unfinished + 1
    /\ istate' = [istate EXCEPT ![work_item] = "queued"]
    /\ puts' = [puts EXCEPT ![work_item] = @ + 1]
    /\ orch' = IF orch.k < NumItems(orch.stage)
               THEN [orch EXCEPT !.pc = "bind", !.k = @ + 1]
               ELSE [orch EXCEPT !.pc = "join"]
    /\ UNCHANGED << work_item_stages, libVars, work_item, exception, wk, stderr, exitCode,
                    faults, trace, raised >>
    /\ UNCHANGED serverVars /\ UNCHANGED casVars /\ UNCHANGED << commitLog, lastCreate, snap, gets, rejectedOn >>


\* Faulty variant: join returns as soon as the queue is empty, items still running.
JoinReleasedOnEmptyQueue == queue = << >>

\* Queue.join returns once every put has been matched by a task_done.
JoinReleased == unfinished = 0

\* WORK_QUEUE.join()
OrchJoin ==
    /\ Running /\ orch.pc = "join"
    /\ JoinReleased
    /\ orch' = [orch EXCEPT !.pc = "check", !.k = 1]
    /\ UNCHANGED << work_item_stages, libVars, work_item, queue, unfinished, exception, wk, stderr,
                    exitCode, faults, istate, trace, raised >>
    /\ UNCHANGED serverVars /\ UNCHANGED casVars /\ UNCHANGED logVars


\* Faulty variant: the check looks at the first item of the stage only.
FailedFirstOnly(it) == it[2] = 1 /\ exception[it] # None

\* if work_item.exception is not None:
Failed(it) == exception[it] # None

\* for work_item in work_items: if work_item.exception is not None:
\*     print_err(work_item.exception); sys.exit(1)
\* and, after the last item, the next stage or the end of the script (exit 0).
OrchCheck ==
    /\ Running /\ orch.pc = "check"
    /\ LET it == << orch.stage, orch.k >>
       IN /\ work_item' = it
          /\ IF Failed(it)
             THEN /\ stderr' = Append(stderr, exception[it].msg)
                  /\ exitCode' = 1
                  /\ orch' = [orch EXCEPT !.pc = "aborted"]
             ELSE /\ stderr' = stderr
                  /\ IF orch.k < NumItems(orch.stage)
                     THEN /\ orch' = [orch EXCEPT !.k = @ + 1]
                          /\ exitCode' = exitCode
                     ELSE IF orch.stage < NumStages
                     THEN /\ orch' = [pc |-> "bind", stage |-> orch.stage + 1, k |-> 1]
                          /\ exitCode' = exitCode
                     ELSE /\ orch' = [orch EXCEPT !.pc = "done"]
                          /\ exitCode' = 0
    /\ UNCHANGED << work_item_stages, libVars, queue, unfinished, exception, wk, faults, istate,
                    trace, raised >>
    /\ UNCHANGED serverVars /\ UNCHANGED casVars /\ UNCHANGED logVars

\* ----------------------------------------------------------- the workers
CurFunc(r) == ItemRec(r.item).work_funcs[r.fi]
CurStmt(r) == Body(CurFunc(r))[r.si]
CurDc(r) == ItemRec(r.item).dc

\* Faulty variant: the worker reads the head of the queue and leaves it there.
WorkerPeek(w) ==
    /\ Running /\ wk[w].pc = "get"
    /\ queue # << >>
    /\ LET it == Head(queue)
       IN /\ wk' = [wk EXCEPT ![w] = [Idle EXCEPT !.pc = "run", !.item = it, !.fi = 1, !.si = 1]]
          /\ istate' = [istate EXCEPT ![it] = "running"]
          /\ trace' = [trace EXCEPT ![it] = Append(@, 1)]
          /\ gets' = [gets EXCEPT ![it] = Append(@, w)]
    /\ UNCHANGED << work_item_stages, libVars, orch, work_item, queue, unfinished, exception, stderr,
                    exitCode, faults, raised >>
    /\ UNCHANGED serverVars /\ UNCHANGED casVars /\ UNCHANGED << commitLog, lastCreate, snap, puts, rejectedOn >>

\* item = WORK_QUEUE.get(); the for loop enters the first work function.
WorkerGet(w) ==
    /\ Running /\ wk[w].pc = "get"
    /\ queue # << >>
    /\ LET it == Head(queue)
       IN /\ queue' = Tail(queue)
          /\ wk' = [wk EXCEPT ![w] = [Idle EXCEPT !.pc = "run", !.item = it, !.fi = 1, !.si = 1]]
          /\ istate' = [istate EXCEPT ![it] = "running"]
          /\ trace' = [trace EXCEPT ![it] = Append(@, 1)]
          /\ gets' = [gets EXCEPT ![it] = Append(@, w)]
    /\ UNCHANGED << work_item_stages, libVars, orch, work_item, unfinished, exception, stderr,
                    exitCode, faults, raised >>
    /\ UNCHANGED serverVars /\ UNCHANGED casVars /\ UNCHANGED << commitLog, lastCreate, snap, puts, rejectedOn >>

\* A work function returned: the for loop calls the next one, or falls
\* through to WORK_QUEUE.task_done().
FuncReturn(r) ==
    IF r.fi < Len(ItemRec(r.item).work_funcs)
    THEN [r EXCEPT !.fi = @ + 1, !.si = 1]
    ELSE [r EXCEPT !.pc = "task_done"]

\* A statement of the work function returned.
StmtReturn(r) ==
    IF r.si < Len(Body(CurFunc(r))) THEN [r EXCEPT !.si = @ + 1] ELSE FuncReturn(r)


\* Faulty variant: the exception is swallowed inside the loop, which goes on.
OnRaiseContinue(r, msg) == FuncReturn(r)

\* An exception left the work function: control leaves the for loop for the
\* except clause of worker().
OnRaise(r, msg) == [r EXCEPT !.pc = "exc_load", !.e = Exc(msg, r.item, r.fi)]

\* A statement of the work function raised msg.
StmtRaise(r, msg) == IF Caught(CurFunc(r), msg) THEN FuncReturn(r) ELSE OnRaise(r, msg)

\* The worker after its current statement ended with msg ("": it returned),
\* and the history of what ran and what was raised.
Settle(w, msg) ==
    LET r == wk[w]
        n == IF msg = "" THEN StmtReturn(r) ELSE StmtRaise(r, msg)
    IN /\ wk' = [wk EXCEPT ![w] = n]
       /\ trace' = IF n.pc = "run" /\ n.fi # r.fi
                   THEN [trace EXCEPT ![r.item] = Append(@, n.fi)]
                   ELSE trace
       /\ raised' = IF msg # "" /\ ~Caught(CurFunc(r), msg)
                    THEN raised \cup {Exc(msg, r.item, r.fi)}
                    ELSE raised
       /\ istate' = IF n.pc # "run" THEN [istate EXCEPT ![r.item] = "finished"] ELSE istate

AtStmt(w, ops) == Running /\ wk[w].pc = "run" /\ CurStmt(wk[w]).op \in ops

harnessFrame == << work_item_stages, libVars, orch, work_item, queue, unfinished, exception, stderr,
                   exitCode >>

QueryOps == { "set_head", "create_table", "expect_error_create_table", "insert_seed",
              "update_pk0", "commit", "create_branch", "merge", "check_tables",
              "check_rows", "check_conflicts", "replace_theirs", "delete_theirs",
              "clear_conflicts" }

\* Worker w executes its current statement, one of ops, on its item's connection.
RunStmt(w, ops) ==
    /\ AtStmt(w, ops)
    /\ LET c == CurDc(wk[w])
           res == Query(CurStmt(wk[w]), sess[c], commits, branches)
       IN /\ sess' = [sess EXCEPT ![c] = res.s]
          /\ commits' = res.commits
          /\ branches' = res.branches
          /\ Settle(w, res.err)
    /\ UNCHANGED harnessFrame /\ UNCHANGED faults

\* dc.connect() succeeds: a fresh session, bound to no revision yet.
ConnectOk(w) ==
    /\ AtStmt(w, {"connect"})
    /\ sess' = [sess EXCEPT ![CurDc(wk[w])] = [NoSession EXCEPT !.cnx = TRUE]]
    /\ Settle(w, "")
    /\ UNCHANGED harnessFrame /\ UNCHANGED << commits, branches, faults >>
    /\ UNCHANGED casVars /\ UNCHANGED logVars

\* dc.connect() fails: DoltConnection.connect prints the error and calls
\* sys.exit(1).  In a worker thread that raises SystemExit, which is no
\* Exception: worker()'s except clause does not catch it, the thread ends and
\* task_done() is never called for the item.
ConnectFail(w) ==
    /\ AtStmt(w, {"connect"})
    /\ faults < MaxFaults
    /\ faults' = faults + 1
    /\ stderr' = Append(stderr, "ConnectionError")
    /\ wk' = [wk EXCEPT ![w] = [@ EXCEPT !.pc = "dead"]]
    /\ raised' = raised \cup {Exc("SystemExit", wk[w].item, wk[w].fi)}
    /\ istate' = [istate EXCEPT ![wk[w].item] = "finished"]
    /\ UNCHANGED << work_item_stages, libVars, orch, work_item, queue, unfinished, exception,
                    exitCode, trace >>
    /\ UNCHANGED serverVars /\ UNCHANGED casVars /\ UNCHANGED logVars

\* History: the commit statement worker record r stands at ended as kind
\* ("accepted", "rejected" by the expected-hash test, or "error").
CommitEnd(r, kind) == [by |-> r.item, fi |-> r.fi, kind |-> kind]

\* The transport or the server fails a statement the script expects to work:
\* cursor.execute raises and query (exit_on_err=False) raises it again.
QueryFault(w) ==
    /\ AtStmt(w, QueryOps)
    /\ sess[CurDc(wk[w])].cnx
    /\ faults < MaxFaults
    /\ faults' = faults + 1
    /\ LET c == CurDc(wk[w])
           res == QueryError(sess[c], commits, branches)
       IN Settle(w, IF CurStmt(wk[w]).op = "expect_error_create_table"
                    THEN query_with_expected_error(res).err ELSE res.err)
    /\ UNCHANGED harnessFrame /\ UNCHANGED serverVars /\ UNCHANGED casVars /\ UNCHANGED << lastCreate, snap, puts, gets, rejectedOn >>
    /\ commitLog' = IF CurStmt(wk[w]).op = "commit"
                    THEN commitLog \cup {CommitEnd(wk[w], "error")}
                    ELSE commitLog

\* query(dc, 'SET @@repo1_head=HASHOF(ref);')
SetHeadQuery(w) ==
    /\ RunStmt(w, {"set_head"})
    /\ LET c == CurDc(wk[w])
           res == Query(CurStmt(wk[w]), sess[c], commits, branches)
       IN rejectedOn' = IF res.err = "" THEN [rejectedOn EXCEPT ![c] = {}] ELSE rejectedOn
    /\ UNCHANGED casVars /\ UNCHANGED << commitLog, lastCreate, snap, puts, gets >>

\* query(dc, CREATE TABLE test ...) of create_tables
CreateTableQuery(w) == RunStmt(w, {"create_table"}) /\ UNCHANGED casVars /\ UNCHANGED logVars

\* query_with_expected_error(dc, ..., CREATE TABLE test ...) of duplicate_table_create
ExpectedErrorQuery(w) == RunStmt(w, {"expect_error_create_table"}) /\ UNCHANGED casVars /\ UNCHANGED logVars

\* the INSERT of seed_main and its row-count test
InsertQuery(w) == RunStmt(w, {"insert_seed"}) /\ UNCHANGED casVars /\ UNCHANGED logVars

\* query(dc, 'UPDATE test SET c1=v WHERE pk=0')
UpdateQuery(w) == RunStmt(w, {"update_pk0"}) /\ UNCHANGED casVars /\ UNCHANGED logVars

\* create_branch: the INSERT INTO dolt_branches and its row-count test
CreateBranchQuery(w) ==
    /\ RunStmt(w, {"create_branch"})
    /\ LET c == CurDc(wk[w])
           stmt == CurStmt(wk[w])
           res == Query(stmt, sess[c], commits, branches)
       IN lastCreate' = [lastCreate EXCEPT ![c] =
              IF sess[c].cnx
              THEN [name |-> stmt.ref, before |-> branches[stmt.ref],
                    after |-> branches'[stmt.ref], head |-> sess[c].head, err |-> res.err,
                    refs |-> { branches[b] : b \in BranchNames } \ {0}]
              ELSE @]
    /\ UNCHANGED casVars /\ UNCHANGED << commitLog, snap, puts, gets, rejectedOn >>

\* query(dc, 'SET @@repo1_head=Merge("main");')
MergeQuery(w) == RunStmt(w, {"merge"}) /\ UNCHANGED casVars /\ UNCHANGED logVars

\* query_and_test_results
TestResultsQuery(w) == RunStmt(w, {"check_tables", "check_rows", "check_conflicts"}) /\ UNCHANGED casVars /\ UNCHANGED logVars

\* History: session c's table and conflict set as the first statement of
\* resolve_theirs found them.
TakeSnap(c) ==
    snap' = [snap EXCEPT ![c] = IF @.taken THEN @
                                ELSE [taken |-> TRUE, rows |-> sess[c].root.rows,
                                      conflicts |-> sess[c].conflicts]]

\* One statement of resolve_theirs.
ResolveStmt(w, op) ==
    /\ RunStmt(w, {op})
    /\ TakeSnap(CurDc(wk[w]))
    /\ UNCHANGED casVars /\ UNCHANGED << commitLog, lastCreate, puts, gets, rejectedOn >>

\* resolve_theirs: the REPLACE INTO test
ReplaceTheirsQuery(w) == ResolveStmt(w, "replace_theirs")

\* resolve_theirs: the DELETE FROM test
DeleteTheirsQuery(w) == ResolveStmt(w, "delete_theirs")

\* resolve_theirs: the DELETE FROM dolt_conflicts_test
ClearConflictsQuery(w) == ResolveStmt(w, "clear_conflicts")

\* raise Exception("Failed to fail commit") of fail_to_commit
RaiseStmt(w) == RunStmt(w, {"raise"}) /\ UNCHANGED casVars /\ UNCHANGED logVars

\* commit_and_update_branch: the UPDATE dolt_branches statement and the test of
\* its row count.  lastCas and advances record what the server was asked and
\* what it did.
CommitQuery(w) ==
    /\ RunStmt(w, {"commit"})
    /\ LET c == CurDc(wk[w])
           stmt == CurStmt(wk[w])
           res == Query(stmt, sess[c], commits, branches)
           now == [branch |-> stmt.ref,
                   before |-> branches[stmt.ref],
                   expvals |-> { ExpectedValue(sess[c], commits, stmt.exp[i]) :
                                    i \in 1 .. Len(stmt.exp) },
                   rc |-> IF branches'[stmt.ref] # branches[stmt.ref] THEN 1 ELSE 0,
                   after |-> branches'[stmt.ref],
                   err |-> res.err,
                   head |-> sess[c].head]
       IN IF sess[c].cnx
          THEN /\ lastCas' = [lastCas EXCEPT ![c] = now]
               /\ advances' = IF now.after # now.before
                              THEN advances \cup {[branch |-> now.branch, from |-> now.before,
                                                   to |-> now.after, by |-> c]}
                              ELSE advances
          ELSE UNCHANGED casVars
    /\ LET c == CurDc(wk[w])
           res == Query(CurStmt(wk[w]), sess[c], commits, branches)
           ref == CurStmt(wk[w]).ref
           kind == IF branches'[ref] # branches[ref] THEN "accepted"
                   ELSE IF res.err \in {"QueryError", "AttributeError"} THEN "error"
                   ELSE "rejected"
       IN /\ commitLog' = commitLog \cup {CommitEnd(wk[w], kind)}
          /\ rejectedOn' = IF kind = "rejected"
                           THEN [rejectedOn EXCEPT ![c] = @ \cup {ref}]
                           ELSE rejectedOn
    /\ UNCHANGED << lastCreate, snap, puts, gets >>

\* A raise reached worker()'s except clause: work_item.exception = e first
\* loads the global name work_item ...
WorkerExceptLoad(w) ==
    /\ Running /\ wk[w].pc = "exc_load"
    /\ wk' = [wk EXCEPT ![w] = IF work_item = NoItem
                               THEN [@ EXCEPT !.pc = "dead"]
                               ELSE [@ EXCEPT !.pc = "exc_store", !.tgt = work_item]]
    /\ UNCHANGED << work_item_stages, libVars, orch, work_item, queue, unfinished, exception,
                    stderr, exitCode, faults, istate, trace, raised >>
    /\ UNCHANGED serverVars /\ UNCHANGED casVars /\ UNCHANGED logVars


\* Faulty variant: the except clause records nothing.
StoreExceptionNowhere(exc, tgt, e) == exc

\* The exception fields after e is stored on item tgt.
StoreException(exc, tgt, e) == [exc EXCEPT ![tgt] = e]

\* ... and then stores e in that object's exception field.
WorkerExceptStore(w) ==
    /\ Running /\ wk[w].pc = "exc_store"
    /\ exception' = StoreException(exception, wk[w].tgt, wk[w].e)
    /\ wk' = [wk EXCEPT ![w] = [@ EXCEPT !.pc = "exc_done"]]
    /\ UNCHANGED << work_item_stages, libVars, orch, work_item, queue, unfinished,
                    stderr, exitCode, faults, istate, trace, raised >>
    /\ UNCHANGED serverVars /\ UNCHANGED casVars /\ UNCHANGED logVars

\* WORK_QUEUE.task_done() of the except clause, then the next get.
WorkerExceptTaskDone(w) ==
    /\ Running /\ wk[w].pc = "exc_done"
    /\ unfinished' = unfinished - 1
    /\ wk' = [wk EXCEPT ![w] = Idle]
    /\ UNCHANGED << work_item_stages, libVars, orch, work_item, queue, exception,
                    stderr, exitCode, faults, istate, trace, raised >>
    /\ UNCHANGED serverVars /\ UNCHANGED casVars /\ UNCHANGED logVars

\* WORK_QUEUE.task_done() after the last work function, then the next get.
WorkerTaskDone(w) ==
    /\ Running /\ wk[w].pc = "task_done"
    /\ unfinished' = unfinished - 1
    /\ wk' = [wk EXCEPT ![w] = Idle]
    /\ UNCHANGED << work_item_stages, libVars, orch, work_item, queue, exception,
                    stderr, exitCode, faults, istate, trace, raised >>
    /\ UNCHANGED serverVars /\ UNCHANGED casVars /\ UNCHANGED logVars

WorkerNext(w) ==
    \/ WorkerGet(w)
    \/ ConnectOk(w)
    \/ ConnectFail(w)
    \/ QueryFault(w)
    \/ SetHeadQuery(w)
    \/ CreateTableQuery(w)
    \/ ExpectedErrorQuery(w)
    \/ InsertQuery(w)
    \/ UpdateQuery(w)
    \/ CreateBranchQuery(w)
    \/ MergeQuery(w)
    \/ TestResultsQuery(w)
    \/ ReplaceTheirsQuery(w)
    \/ DeleteTheirsQuery(w)
    \/ ClearConflictsQuery(w)
    \/ RaiseStmt(w)
    \/ CommitQuery(w)
    \/ WorkerTaskDone(w)
    \/ WorkerExceptLoad(w)
    \/ WorkerExceptStore(w)
    \/ WorkerExceptTaskDone(w)

Next ==
    \/ OrchBind
    \/ OrchPut
    \/ OrchJoin
    \/ OrchCheck
    \/ \E w \in Workers : WorkerNext(w)

Spec == Init /\ [][Next]_vars

\* ------------------------------------------- two committers on one branch
\* The script never lets two sessions commit inside one stage.  RaceScript
\* puts the source's own modify_pk0_on_main_and_commit on both connections
\* in one stage, so that two commit_and_update_branch calls on main race.
RaceScript ==
    << << WorkItem(0, << "connect", "create_tables" >>) >>,
       << WorkItem(0, << "seed_main" >>), WorkItem(1, << "connect" >>) >>,
       << WorkItem(0, << "modify_pk0_on_main_and_commit" >>),
          WorkItem(1, << "modify_pk0_on_main_and_commit" >>) >> >>

InitRace == InitWith(RaceScript)

WorkerNextRace(w) ==
    \/ WorkerGet(w)
    \/ ConnectOk(w)
    \/ ConnectFail(w)
    \/ QueryFault(w)
    \/ SetHeadQuery(w)
    \/ CreateTableQuery(w)
    \/ InsertQuery(w)
    \/ UpdateQuery(w)
    \/ TestResultsQuery(w)
    \/ CommitQuery(w)
    \/ WorkerTaskDone(w)
    \/ WorkerExceptLoad(w)
    \/ WorkerExceptStore(w)
    \/ WorkerExceptTaskDone(w)

NextRace ==
    \/ OrchBind
    \/ OrchPut
    \/ OrchJoin
    \/ OrchCheck
    \/ \E w \in Workers : WorkerNextRace(w)

SpecRace == InitRace /\ [][NextRace]_vars

\* ================================================================ claims

Started(it) == istate[it] \in {"running", "finished"}
Evaluated(c) == lastCas[c].rc # -1

\* C1: barrier ordering.  Whenever a work item of a later stage has started
\* (a worker took it and entered its first work function), every work item of
\* every earlier stage has finished: its last work function returned, or one
\* of its work functions raised.
C1_BarrierOrdering ==
    \A it \in Items : \A jt \in Items :
        (it[1] < jt[1] /\ Started(jt)) => istate[it] = "finished"

\* A work item of the last stage is running, after three barriers.
C1_Witness == istate[<< NumStages, 1 >>] = "running" /\ NumStages = 4

\* C2: once a work function of stage i has raised, the stage loop never gets
\* past stage i: no item of a later stage is ever put (or even bound), the
\* run does not complete, and when the main thread inspects stage i after the
\* barrier, some item of stage i carries a captured exception.
C2_FailureHaltsRun ==
    \A e \in raised :
        /\ orch.stage = e.by[1]
        /\ orch.pc # "done"
        /\ \A it \in Items : it[1] > e.by[1] => istate[it] = "new"
        /\ orch.pc \in {"check", "aborted"} =>
              \E it \in StageItems(e.by[1]) : exception[it] # None

\* The run was aborted in a two-item stage with later stages left, after a
\* work function raised while the main thread was still in its enqueue loop.
C2_Witness ==
    /\ orch.pc = "aborted"
    /\ orch.stage < NumStages
    /\ \E e \in raised : e.by[1] = orch.stage /\ exception[<< orch.stage, 1 >>] # None
    /\ NumItems(orch.stage) = 2

\* C3: the process exit contract.  The process exits 0 only from the end of
\* the script, with every stage run, no exception ever raised out of a work
\* function and no exception captured on any item; it exits 1 only after
\* printing the message of an exception captured on an item of the stage it
\* stopped in; and it never exits 0 with a captured failure.
C3_ExitContract ==
    /\ exitCode \in {-1, 0, 1}
    /\ exitCode = 0 =>
          /\ orch.pc = "done" /\ orch.stage = NumStages
          /\ raised = {}
          /\ \A it \in Items : exception[it] = None /\ istate[it] = "finished"
    /\ exitCode = 1 =>
          /\ orch.pc = "aborted"
          /\ raised # {}
          /\ \E it \in StageItems(orch.stage) :
                /\ exception[it] # None
                /\ stderr # << >> /\ stderr[Len(stderr)] = exception[it].msg
    /\ orch.pc \in {"done", "aborted"} => exitCode # -1
    /\ (orch.pc = "done") => exitCode = 0

\* The process exited 1 although the failure was captured on the second item
\* of its stage.
C3_Witness ==
    /\ exitCode = 1
    /\ exception[<< orch.stage, 1 >>] = None
    /\ NumItems(orch.stage) = 2 /\ exception[<< orch.stage, 2 >>] # None

\* C4: within one work item the work functions are entered in the order
\* given, each at most once (the functions started are 1, 2, ..., n), and
\* after a work function raised no later work function of the item is entered.
C4_InOrderStopAtRaise ==
    /\ \A it \in Items :
          /\ Len(trace[it]) <= Len(ItemRec(it).work_funcs)
          /\ \A i \in 1 .. Len(trace[it]) : trace[it][i] = i
    /\ \A e \in raised : Len(trace[e.by]) = e.fi

\* The first of the three work functions of the last stage's item raised and
\* the worker has gone back to the queue.
C4_Witness ==
    \E e \in raised :
        /\ e.fi = 1 /\ Len(ItemRec(e.by).work_funcs) = 3
        /\ \A w \in Workers : wk[w].pc = "get"

\* C5: a captured exception sits on the item whose work function raised it
\* (and so no other item's exception field is touched).
C5_ExceptionOnRaisingItem ==
    \A it \in Items : exception[it] # None => exception[it].by = it

\* C6: no failure is lost.  When the main thread inspects a stage after the
\* barrier, every exception raised out of a work function of that stage is
\* still the exception field of some item of the stage.
C6_NoFailureLost ==
    orch.pc \in {"check", "aborted"} =>
        \A e \in raised :
            e.by[1] = orch.stage => \E it \in StageItems(orch.stage) : exception[it] = e

\* C7: a commit_and_update_branch whose expected hashes do not include the
\* branch's current hash (as the server evaluated the statement) raises
\* UPDATE_BRANCH_FAIL_MSG and leaves the branch where it was.
C7_MismatchRejected ==
    \A c \in Conns :
        (Evaluated(c) /\ lastCas[c].before \notin lastCas[c].expvals) =>
            /\ lastCas[c].err = UPDATE_BRANCH_FAIL_MSG
            /\ lastCas[c].after = lastCas[c].before
            /\ lastCas[c].rc = 0

\* A session's commit on an existing branch was refused for a stale hash.
C7_Witness ==
    \E c \in Conns :
        /\ Evaluated(c) /\ lastCas[c].before # 0
        /\ lastCas[c].before \notin lastCas[c].expvals
        /\ lastCas[c].err = UPDATE_BRANCH_FAIL_MSG

\* C8: a commit_and_update_branch whose expected hashes include the current
\* hash of the (existing) branch moves the branch to another hash, sees a row
\* count of 1 and does not raise.
C8_MatchAdvances ==
    \A c \in Conns :
        (Evaluated(c) /\ lastCas[c].before # 0
            /\ lastCas[c].before \in lastCas[c].expvals) =>
            /\ lastCas[c].after # lastCas[c].before
            /\ lastCas[c].after # 0
            /\ lastCas[c].rc = 1
            /\ lastCas[c].err = ""

\* The commit after the merge, given both parents of the merge revision as
\* expected hashes, was accepted: main stood at one of the two.
C8_Witness ==
    \E c \in Conns :
        /\ Evaluated(c) /\ Cardinality(lastCas[c].expvals) = 2
        /\ lastCas[c].before \in lastCas[c].expvals
        /\ lastCas[c].rc = 1 /\ lastCas[c].after # lastCas[c].before

\* C9: two sessions that commit on the same branch with the same expected
\* hash H: exactly one is accepted and the other raises the rejection, and
\* no branch is ever moved twice away from the same hash.
C9_OneWinner ==
    /\ \A c \in Conns : \A d \in Conns :
          (c # d /\ Evaluated(c) /\ Evaluated(d)
              /\ lastCas[c].branch = lastCas[d].branch
              /\ lastCas[c].expvals = lastCas[d].expvals) =>
              \/ /\ lastCas[c].rc = 1 /\ lastCas[c].err = ""
                 /\ lastCas[d].rc = 0 /\ lastCas[d].err = UPDATE_BRANCH_FAIL_MSG
              \/ /\ lastCas[d].rc = 1 /\ lastCas[d].err = ""
                 /\ lastCas[c].rc = 0 /\ lastCas[c].err = UPDATE_BRANCH_FAIL_MSG
    /\ \A a \in advances : \A b \in advances :
          (a.branch = b.branch /\ a.from = b.from) => a = b

\* Both sessions were bound to the same hash while both were inside
\* modify_pk0_on_main_and_commit, and both commits have been evaluated.
C9_Witness ==
    /\ Evaluated(0) /\ Evaluated(1)
    /\ lastCas[0].expvals = lastCas[1].expvals
    /\ lastCas[0].branch = "main" /\ lastCas[1].branch = "main"
    /\ lastCas[1].rc = 1 /\ lastCas[0].rc = 0

\* C10: with no injected failure, whatever the interleaving inside the
\* stages, no work function raises and the run does not abort.
C10_ScriptPassesAnyInterleaving ==
    faults = 0 => (raised = {} /\ exitCode # 1)

\* Worker w is inside merge_resolve_commit, resolve_theirs has returned and
\* the test of the resolved rows comes next.
Resolved(w) ==
    /\ wk[w].pc = "run"
    /\ CurFunc(wk[w]) = "merge_resolve_commit"
    /\ CurStmt(wk[w]).op = "check_rows"

\* The two sides of the merge revision a session is bound to.
OursOf(c) == commits[commits[sess[c].head].parents[1]].tbl
TheirsOf(c) == commits[commits[sess[c].head].parents[2]].tbl

\* C11 (as amended): in the two-session scenario, once B has merged main into
\* feature and resolve_theirs has run, B's side of the merge has c1=2 for row
\* 0, main's side has c1=1, and the resolved row 0 is main's row (c1=1): the
\* incoming edit wins and B's own edit is gone.  When the run ends with exit
\* code 0, main's committed row 0 is (0, 1, 0).
C11_ResolvedRowIsIncoming ==
    /\ \A w \in Workers :
          Resolved(w) =>
              LET c == CurDc(wk[w])
              IN /\ RowOf(OursOf(c), 0) = row(0, 2, 0)
                 /\ RowOf(TheirsOf(c), 0) = row(0, 1, 0)
                 /\ RowOf(sess[c].root, 0) = RowOf(TheirsOf(c), 0)
    /\ exitCode = 0 => RowOf(commits[branches["main"]].tbl, 0) = row(0, 1, 0)

\* B has resolved the conflict of the scenario.
C11_Witness == \E w \in Workers : Resolved(w) /\ snap[CurDc(wk[w])].taken

\* C11 (as claimed): after the resolution, main's own edit of row 0 (c1=1) is
\* absent from the resolved row.
C11_MainEditAbsent ==
    \A w \in Workers :
        Resolved(w) => RowOf(sess[CurDc(wk[w])].root, 0) # RowOf(TheirsOf(CurDc(wk[w])), 0)

\* ------------------------------------------------ resolve_theirs by itself
\* The script reaches resolve_theirs with one conflict only (row 0 changed on
\* both sides).  ResolveScript runs resolve_theirs as a work function on a
\* session that has just merged main into feature, for every choice of the
\* base, feature and main tables over two keys: rows changed on both sides,
\* added on both sides, deleted on one side and changed on the other.
MaxPk == 1

ResolveScript == << << WorkItem(0, << "resolve_theirs" >>) >> >>

ResolveTable(vals) ==
    { [exists |-> TRUE, rows |-> { row(pk, f[pk], 0) : pk \in { q \in 0 .. MaxPk : f[q] # -1 } }] :
        f \in [0 .. MaxPk -> vals \cup {-1}] }

InitResolve ==
    \E base \in ResolveTable({0}), ours \in ResolveTable({0, 1}), theirs \in ResolveTable({0, 2}) :
        LET cm == NewStore \o << [parents |-> << 1 >>, tbl |-> base],
                                 [parents |-> << 2 >>, tbl |-> ours],
                                 [parents |-> << 2 >>, tbl |-> theirs] >>
            br == [b \in BranchNames |-> IF b = "main" THEN 4 ELSE 3]
            s0 == [cnx |-> TRUE, head |-> 3, root |-> ours, conflicts |-> {}]
            m == SrvMerge(s0, cm, br, "main")
        IN InitFrom(ResolveScript, [c \in Conns |-> IF c = 0 THEN m.s ELSE NoSession],
                    m.commits, br)

WorkerNextResolve(w) ==
    \/ WorkerGet(w)
    \/ QueryFault(w)
    \/ ReplaceTheirsQuery(w)
    \/ DeleteTheirsQuery(w)
    \/ ClearConflictsQuery(w)
    \/ WorkerTaskDone(w)
    \/ WorkerExceptLoad(w)
    \/ WorkerExceptStore(w)
    \/ WorkerExceptTaskDone(w)

NextResolve ==
    \/ OrchBind
    \/ OrchPut
    \/ OrchJoin
    \/ OrchCheck
    \/ \E w \in Workers : WorkerNextResolve(w)

SpecResolve == InitResolve /\ [][NextResolve]_vars

\* The key of a conflict, the conflicts of a key, and the row prefer-incoming
\* leaves for key pk given the table and the conflict set it started from.
ConflictKeys(d) == { r[1] : r \in {d.base, d.ours, d.theirs} \ {Null} }
ConflictsAt(cs, pk) == { d \in cs : pk \in ConflictKeys(d) }
PreferIncoming(rows, cs, pk) ==
    IF ConflictsAt(cs, pk) = {} THEN RowOf([exists |-> TRUE, rows |-> rows], pk)
    ELSE (CHOOSE d \in ConflictsAt(cs, pk) : TRUE).theirs

\* Session c's table is the prefer-incoming resolution of its snapshot.
ResolvedAsIncoming(c) ==
    \A pk \in 0 .. MaxPk :
        RowOf(sess[c].root, pk) = PreferIncoming(snap[c].rows, snap[c].conflicts, pk)

\* C12: resolve_theirs is prefer-incoming.  When it has run to its end on a
\* session, every conflicting row whose incoming key is not null is the
\* incoming row, every conflicting row whose incoming key is null is deleted,
\* every row without conflict is as it was, and the conflict set is empty;
\* the conflict set is cleared last: it is untouched until the table is fully
\* resolved.
C12_PreferIncoming ==
    \A it \in Items :
        LET c == ItemRec(it).dc
        IN snap[c].taken =>
             /\ sess[c].conflicts # snap[c].conflicts =>
                    sess[c].conflicts = {} /\ ResolvedAsIncoming(c)
             /\ (istate[it] = "finished" /\ \A e \in raised : e.by # it) =>
                    sess[c].conflicts = {} /\ ResolvedAsIncoming(c)

\* resolve_theirs ran to its end on a session that had a conflict with an
\* incoming row and a conflict whose incoming side deleted the row.
C12_Witness ==
    \E it \in Items :
        LET c == ItemRec(it).dc
        IN /\ istate[it] = "finished" /\ raised = {}
           /\ \E d \in snap[c].conflicts : d.theirs # Null /\ d.ours # Null
           /\ \E d \in snap[c].conflicts : d.theirs = Null
           /\ sess[c].conflicts = {}
           /\ sess[c].root.rows # snap[c].rows

\* Worker w is inside merge_resolve_commit at statement op.
InMergeResolveCommit(w, op) ==
    /\ wk[w].pc = "run"
    /\ CurFunc(wk[w]) = "merge_resolve_commit"
    /\ CurStmt(wk[w]).op = op

\* C13: once resolve_theirs has returned on a session whose pending merge had
\* conflicts, the session's conflict set is empty, and the
\* commit_and_update_branch that follows succeeds: the statement is accepted
\* with one row updated and no exception, and it ended in no other way.
C13_ResolvedMergeCommits ==
    /\ \A w \in Workers :
          LET c == CurDc(wk[w])
          IN /\ Resolved(w) => snap[c].conflicts # {} /\ sess[c].conflicts = {}
             /\ InMergeResolveCommit(w, "commit") =>
                    /\ sess[c].conflicts = {}
                    /\ Exec(CurStmt(wk[w]), sess[c], commits, branches).err = ""
                    /\ Exec(CurStmt(wk[w]), sess[c], commits, branches).rc = 1
    /\ \A e \in commitLog :
          ItemRec(e.by).work_funcs[e.fi] = "merge_resolve_commit" /\ e.kind # "accepted" =>
              faults > 0

\* The commit after the resolution was accepted.
C13_Witness ==
    \E e \in commitLog :
        /\ ItemRec(e.by).work_funcs[e.fi] = "merge_resolve_commit"
        /\ e.kind = "accepted"
        /\ snap[ItemRec(e.by).dc].conflicts # {}
        /\ sess[ItemRec(e.by).dc].conflicts = {}

\* The calls of work function f the script makes: item and position.
CallsOf(f) ==
    { << it, fi >> \in Items \X (1 .. 3) :
        fi <= Len(ItemRec(it).work_funcs) /\ ItemRec(it).work_funcs[fi] = f }

\* Call fi of item it returned normally: the loop of worker() went past it.
Returned(it, fi) ==
    \/ \E k \in 1 .. Len(trace[it]) : trace[it][k] = fi + 1
    \/ /\ fi = Len(ItemRec(it).work_funcs)
       /\ istate[it] = "finished"
       /\ \A e \in raised : e.by # it

\* The item is with no worker any more.
Released(it) == istate[it] = "finished" /\ \A w \in Workers : wk[w].item # it

\* C14: fail_to_commit returns normally exactly when its commit statement was
\* rejected by the expected-hash test (no row updated, no error); when the
\* commit was accepted, or ended with any other error, fail_to_commit raises,
\* the call does not return normally, and once the worker has let go of the
\* item the item carries an exception.
C14_FailToCommitInverts ==
    \A call \in CallsOf("fail_to_commit") :
        LET it == call[1]
            fi == call[2]
            ended(kind) == [by |-> it, fi |-> fi, kind |-> kind] \in commitLog
            raisedHere == \E e \in raised : e.by = it /\ e.fi = fi
            pending == \E w \in Workers :
                          wk[w].pc = "run" /\ wk[w].item = it /\ wk[w].fi = fi
        IN /\ Returned(it, fi) <=> ended("rejected")
           /\ ended("rejected") => ~raisedHere
           /\ ended("accepted") \/ ended("error") =>
                 /\ ~Returned(it, fi)
                 /\ pending \/ raisedHere
                 /\ Released(it) => exception[it] # None

\* fail_to_commit ran, its commit was rejected and the next work function of
\* the item was started.
C14_Witness ==
    \E call \in CallsOf("fail_to_commit") :
        /\ [by |-> call[1], fi |-> call[2], kind |-> "rejected"] \in commitLog
        /\ Returned(call[1], call[2])
        /\ lastCas[ItemRec(call[1]).dc].before \notin lastCas[ItemRec(call[1]).dc].expvals

\* ------------------------------------------------ one branch name, twice
\* The script creates feature once.  BranchScript lets both sessions run the
\* source's commit_to_feature in one stage, so that the second create_branch
\* finds the name taken.
BranchScript ==
    << << WorkItem(0, << "connect", "create_tables" >>) >>,
       << WorkItem(0, << "seed_main" >>), WorkItem(1, << "connect" >>) >>,
       << WorkItem(0, << "commit_to_feature" >>),
          WorkItem(1, << "modify_pk0_on_main_no_commit", "commit_to_feature" >>) >> >>

InitBranch == InitWith(BranchScript)

WorkerNextBranch(w) ==
    \/ WorkerGet(w)
    \/ ConnectOk(w)
    \/ ConnectFail(w)
    \/ QueryFault(w)
    \/ SetHeadQuery(w)
    \/ CreateTableQuery(w)
    \/ InsertQuery(w)
    \/ UpdateQuery(w)
    \/ CreateBranchQuery(w)
    \/ TestResultsQuery(w)
    \/ CommitQuery(w)
    \/ WorkerTaskDone(w)
    \/ WorkerExceptLoad(w)
    \/ WorkerExceptStore(w)
    \/ WorkerExceptTaskDone(w)

NextBranch ==
    \/ OrchBind
    \/ OrchPut
    \/ OrchJoin
    \/ OrchCheck
    \/ \E w \in Workers : WorkerNextBranch(w)

SpecBranch == InitBranch /\ [][NextBranch]_vars

\* C15: a create_branch whose name is already a branch fails: the call raises
\* (its work function is left by that exception), no branch is added and
\* the existing branch still has the hash it had: the call is not idempotent
\* and never re-points the branch to the caller's revision.
C15_DuplicateCreateFails ==
    \A c \in Conns :
        LET lc == lastCreate[c]
        IN lc.name # "" /\ lc.before # 0 =>
             /\ lc.err # ""
             /\ lc.after = lc.before
             /\ \E e \in raised : ItemRec(e.by).dc = c /\ e.msg = lc.err
                                  /\ ItemRec(e.by).work_funcs[e.fi] = "commit_to_feature"

\* A second create_branch of feature ran, from a revision other than the one
\* feature points to.
C15_Witness ==
    \E c \in Conns :
        /\ lastCreate[c].name = "feature"
        /\ lastCreate[c].before # 0
        /\ lastCreate[c].head # lastCreate[c].before
        /\ branches["feature"] = lastCreate[c].before

\* C16 (as claimed): when connect cannot reach the endpoint, the failure is
\* the item's: the worker is in its except clause on the way to task_done(),
\* or a failure has been stored on a work item for the orchestrator to report.
C16_ConnectFailureCaptured ==
    \A e \in raised :
        e.msg = "SystemExit" =>
            \/ \E w \in Workers :
                  wk[w].item = e.by /\ wk[w].pc \in {"exc_load", "exc_store", "exc_done"}
            \/ \E it \in Items : exception[it] # None

\* The orchestrator's terminal states: all stages complete, or aborted.
Terminal == orch.pc \in {"done", "aborted"}

\* C17 (as claimed, in finite-run form): as long as the orchestrator is not in
\* a terminal state some thread can take a step, so that a fairly scheduled
\* run whose session calls all return or fail ends in a terminal state.
C17_ProgressToTerminal == Terminal \/ ENABLED Next

\* C18: never are two workers inside work functions on the same
\* DoltConnection, and the items of one stage are all on different
\* connections.
C18_SessionExclusive ==
    /\ \A w1, w2 \in Workers :
          w1 # w2 /\ wk[w1].pc = "run" /\ wk[w2].pc = "run" =>
              CurDc(wk[w1]) # CurDc(wk[w2])
    /\ \A it1, it2 \in Items :
          it1 # it2 /\ it1[1] = it2[1] => ItemRec(it1).dc # ItemRec(it2).dc

\* Both workers are inside work functions at once, each on its own
\* connection, both connected.
C18_Witness ==
    \E w1, w2 \in Workers :
        /\ w1 # w2 /\ wk[w1].pc = "run" /\ wk[w2].pc = "run"
        /\ sess[CurDc(wk[w1])].cnx /\ sess[CurDc(wk[w2])].cnx
        /\ wk[w1].si > 1 /\ wk[w2].si > 1

\* The queue holds no item twice.
NoDuplicates(q) == \A i, j \in 1 .. Len(q) : q[i] = q[j] => i = j

\* C19: every work item is consumed exactly once.  It is put on the queue at
\* most once and is there at most once; it is taken at most once, by one
\* worker, and only that worker ever runs it; its work functions are started
\* in order, none twice.  An item that has started was put once and taken
\* once, and so was every item of a stage the orchestrator has left and, when
\* the run exits with code 0, every item, with all its work functions run.
C19_ConsumedOnce ==
    /\ NoDuplicates(queue)
    /\ \A it \in Items :
          /\ puts[it] <= 1
          /\ Len(gets[it]) <= puts[it]
          /\ \A k \in 1 .. Len(trace[it]) : trace[it][k] = k
          /\ \A w \in Workers : wk[w].item = it => gets[it] = << w >>
          /\ \A w1, w2 \in Workers : wk[w1].item = it /\ wk[w2].item = it => w1 = w2
          /\ \A k \in 1 .. Len(queue) : queue[k] = it => gets[it] = << >>
          /\ Started(it) \/ it[1] < orch.stage => puts[it] = 1 /\ Len(gets[it]) = 1
          /\ exitCode = 0 =>
                /\ puts[it] = 1 /\ Len(gets[it]) = 1
                /\ Len(trace[it]) = Len(ItemRec(it).work_funcs)

\* The run passed: every item of every stage went through the queue.
C19_Witness ==
    /\ exitCode = 0
    /\ \A it \in Items : puts[it] = 1 /\ Len(gets[it]) = 1
    /\ \E it1, it2 \in Items : gets[it1] # gets[it2]

\* This step is worker w's commit_and_update_branch statement on branch b,
\* the branch's hash before the step is one of the hashes the statement
\* expected, and the hash after it is the one the statement installed.
CasStepOn(w, b) ==
    /\ wk[w].pc = "run"
    /\ CurStmt(wk[w]).op = "commit"
    /\ CurStmt(wk[w]).ref = b
    /\ wk'[w] # wk[w]
    /\ LET cas == lastCas'[CurDc(wk[w])]
       IN /\ cas.branch = b
          /\ cas.before = branches[b]
          /\ cas.before \in cas.expvals
          /\ cas.after = branches'[b]
          /\ cas.err = ""

\* C20: in every step of the run, a branch that exists keeps existing, and
\* if its hash changes the step is a commit_and_update_branch on that branch
\* whose expected hashes include the hash the branch had just before.
C20_RefMutationDiscipline ==
    [][\A b \in BranchNames :
          branches[b] # 0 =>
              /\ branches'[b] # 0
              /\ branches'[b] # branches[b] => \E w \in Workers : CasStepOn(w, b)]_vars

\* Existing branches were advanced, main more than once, and both branches
\* exist.
C20_Witness ==
    /\ \A b \in BranchNames : branches[b] # 0
    /\ \E a1, a2 \in advances :
          /\ a1.branch = "main" /\ a2.branch = "main" /\ a1.from # 0 /\ a2.from = a1.to
    /\ \E a \in advances : a.branch = "feature" /\ a.from # 0

\* ---------------------------------------------- the session classes alone
\* pytest.py's DoltConnection and InfiniteRetryConnection, called by any
\* caller in any order: connect, query (with either exit_on_err) and close,
\* every attempt against the endpoint succeeding or failing.
MaxAttempts == 3

SessionClasses == {"DoltConnection", "InfiniteRetryConnection"}

runVars == << work_item_stages, orch, work_item, queue, unfinished, exception, wk,
              sess, commits, branches, faults, stderr, exitCode, istate, trace,
              raised, lastCas, advances, logVars >>

SessionFrame == UNCHANGED << runVars, proc, waiter, fs, force >>

\* A call may start when none is in progress and the process has not been
\* ended by sys.exit.
CanCall == sessCall.pc \in {"idle", "done"} /\ sessCall.outcome # "SystemExit"

CallStart(op, x) == [NoCall EXCEPT !.op = op, !.pc = "try", !.exit_on_err = x]

\* The call returns.
Returns(c) == [c EXCEPT !.pc = "done", !.outcome = "returned"]

\* except BaseException as e: _print_err_and_exit(e) when exit is set, else
\* raise e.
Fails(c, exit) ==
    [c EXCEPT !.pc = "done", !.outcome = IF exit THEN "SystemExit" ELSE "raised"]

\* Faulty variant: every class's connect swallows a failed attempt and loops.
RetriesAlways(cls, op) == op = "connect"

\* InfiniteRetryConnection overrides connect with a while True loop whose
\* except clause passes; nothing else loops.
Retries(cls, op) == cls = "InfiniteRetryConnection" /\ op = "connect"

\* self.cnx after a successful _connect: DoltConnection keeps the connection,
\* InfiniteRetryConnection closes it at once (a failure of that close is
\* swallowed).
Connected(cls) == IF cls = "DoltConnection" THEN "open" ELSE "closed"

ConnectCall ==
    /\ CanCall
    /\ sessCall' = CallStart("connect", TRUE)
    /\ UNCHANGED conn /\ SessionFrame

ConnectAttemptOk ==
    /\ sessCall.op = "connect" /\ sessCall.pc = "try"
    /\ conn' = [conn EXCEPT !.cnx = Connected(conn.cls)]
    /\ sessCall' = Returns([sessCall EXCEPT !.attempts = @ + 1])
    /\ SessionFrame

ConnectAttemptFail ==
    /\ sessCall.op = "connect" /\ sessCall.pc = "try"
    /\ sessCall.attempts + 1 < MaxAttempts
    /\ LET c == [sessCall EXCEPT !.attempts = @ + 1, !.failed = @ + 1]
       IN sessCall' = IF Retries(conn.cls, "connect") THEN c ELSE Fails(c, TRUE)
    /\ UNCHANGED conn /\ SessionFrame

QueryCall ==
    /\ CanCall
    /\ \E x \in BOOLEAN : sessCall' = CallStart("query", x)
    /\ UNCHANGED conn /\ SessionFrame

\* cursor.execute succeeds and the rows are returned.
QueryOk ==
    /\ sessCall.op = "query" /\ sessCall.pc = "try"
    /\ conn.cnx = "open"
    /\ sessCall' = Returns([sessCall EXCEPT !.attempts = @ + 1])
    /\ UNCHANGED conn /\ SessionFrame

\* cursor.execute raises.
QueryFail ==
    /\ sessCall.op = "query" /\ sessCall.pc = "try"
    /\ conn.cnx = "open"
    /\ LET c == [sessCall EXCEPT !.attempts = @ + 1, !.failed = @ + 1]
       IN sessCall' = IF Retries(conn.cls, "query") THEN c ELSE Fails(c, sessCall.exit_on_err)
    /\ UNCHANGED conn /\ SessionFrame

\* self.cnx is None or closed: self.cnx.cursor() raises before anything is
\* sent.
QueryNoTransport ==
    /\ sessCall.op = "query" /\ sessCall.pc = "try"
    /\ conn.cnx # "open"
    /\ sessCall' = Fails(sessCall, sessCall.exit_on_err)
    /\ UNCHANGED conn /\ SessionFrame

CloseCall ==
    /\ CanCall
    /\ sessCall' = CallStart("close", FALSE)
    /\ UNCHANGED conn /\ SessionFrame

\* self.cnx.close(): AttributeError when self.cnx is None; nothing catches it.
CloseRun ==
    /\ sessCall.op = "close" /\ sessCall.pc = "try"
    /\ IF conn.cnx = "None"
       THEN sessCall' = Fails(sessCall, FALSE) /\ UNCHANGED conn
       ELSE sessCall' = Returns(sessCall) /\ conn' = [conn EXCEPT !.cnx = "closed"]
    /\ SessionFrame

\* wait_for_connection: a child process runs InfiniteRetryConnection.connect
\* on an object of its own; the caller joins it with a timeout and then reads
\* its exit code.  The child keeps running while the caller is between the
\* two.
WaitFrame == UNCHANGED << runVars, conn, sessCall, fs, force >>

\* cnx_proc.start(); cnx_proc.join(timeout=timeoutf) begins.
WaitStart ==
    /\ waiter.pc = "idle"
    /\ proc' = [NoProc EXCEPT !.pc = "running"]
    /\ waiter' = [waiter EXCEPT !.pc = "joining"]
    /\ WaitFrame

\* The child's _connect raises; the loop of connect goes round.
ChildAttemptFail ==
    /\ proc.pc = "running"
    /\ proc.attempts + 1 < MaxAttempts
    /\ proc' = IF Retries("InfiniteRetryConnection", "connect")
               THEN [proc EXCEPT !.attempts = @ + 1]
               ELSE [proc EXCEPT !.attempts = @ + 1, !.pc = "exited", !.exitcode = "nonzero"]
    /\ UNCHANGED waiter /\ WaitFrame

\* The child's _connect succeeds: connect returns and the process exits 0.
ChildAttemptOk ==
    /\ proc.pc = "running"
    /\ proc' = [proc EXCEPT !.attempts = @ + 1, !.connected = TRUE, !.pc = "exited",
                            !.exitcode = "0"]
    /\ UNCHANGED waiter /\ WaitFrame

\* The child dies of something else (killed, or it could not start).
ChildCrash ==
    /\ proc.pc = "running"
    /\ proc' = [proc EXCEPT !.pc = "exited", !.exitcode = "nonzero"]
    /\ UNCHANGED waiter /\ WaitFrame

\* join returns because the child has exited.
JoinExited ==
    /\ waiter.pc = "joining" /\ proc.pc = "exited"
    /\ waiter' = [waiter EXCEPT !.pc = "check"]
    /\ UNCHANGED proc /\ WaitFrame

\* join returns because timeout_ms has passed with the child still running.
JoinTimeout ==
    /\ waiter.pc = "joining" /\ proc.pc = "running"
    /\ waiter' = [waiter EXCEPT !.pc = "check", !.timedOut = TRUE]
    /\ UNCHANGED proc /\ WaitFrame

\* Faulty variant: only a child that is still running makes the caller exit.
WaitOutcomeIgnoresExitCode(exitcode) == IF exitcode = "None" THEN "exit1" ELSE "returned"

\* if cnx_proc.exitcode is None: ... elif cnx_proc.exitcode != 0: ...
\* Both branches end in _print_err_and_exit; otherwise the function returns.
WaitOutcome(exitcode) == IF exitcode = "0" THEN "returned" ELSE "exit1"

\* The caller reads cnx_proc.exitcode; a child still running is terminated.
CheckExit ==
    /\ waiter.pc = "check"
    /\ waiter' = [waiter EXCEPT !.pc = WaitOutcome(proc.exitcode), !.sawExit = proc.exitcode]
    /\ proc' = IF proc.exitcode = "None" THEN [proc EXCEPT !.pc = "terminated"] ELSE proc
    /\ WaitFrame

InitSession ==
    /\ HarnessInit(Script, [c \in Conns |-> NoSession], NewStore, NewBranches)
    /\ conn \in { [NoConn EXCEPT !.cls = k] : k \in SessionClasses }
    /\ sessCall = NoCall
    /\ WaitIdle /\ SymlinkIdle

NextSession ==
    \/ ConnectCall
    \/ ConnectAttemptOk
    \/ ConnectAttemptFail
    \/ QueryCall
    \/ QueryOk
    \/ QueryFail
    \/ QueryNoTransport
    \/ CloseCall
    \/ CloseRun
    \/ WaitStart
    \/ ChildAttemptFail
    \/ ChildAttemptOk
    \/ ChildCrash
    \/ JoinExited
    \/ JoinTimeout
    \/ CheckExit

SpecSession == InitSession /\ [][NextSession]_vars

\* C21 (as amended): DoltConnection.connect and the query of both classes
\* make at most one attempt against the endpoint per call, and a failed
\* attempt ends the call with an exception (SystemExit after the error was
\* printed, or the error itself when exit_on_err is off), never with a normal
\* return.  InfiniteRetryConnection.connect is the exception: it swallows
\* failed attempts and tries again until one succeeds, so it always returns,
\* after exactly one successful attempt.
C21_SingleAttemptExceptRetryClass ==
    /\ ~Retries(conn.cls, sessCall.op) =>
          /\ sessCall.attempts <= 1
          /\ sessCall.failed > 0 => sessCall.pc = "done" /\ sessCall.outcome \in {"SystemExit", "raised"}
    /\ Retries(conn.cls, sessCall.op) /\ sessCall.pc = "done" =>
          /\ sessCall.outcome = "returned"
          /\ sessCall.attempts = sessCall.failed + 1
    /\ conn.cls = "DoltConnection" /\ sessCall.op = "connect" => sessCall.attempts <= 1

\* An InfiniteRetryConnection.connect has returned after failed attempts.
C21_Witness ==
    /\ conn.cls = "InfiniteRetryConnection"
    /\ sessCall.op = "connect" /\ sessCall.pc = "done"
    /\ sessCall.failed >= 1 /\ sessCall.attempts = sessCall.failed + 1
    /\ sessCall.outcome = "returned"

\* C21 (as claimed): no call of any session class makes a second attempt, and
\* a call with a failed attempt does not return normally.
C21_NoSessionRetries ==
    /\ sessCall.attempts <= 1
    /\ sessCall.pc = "done" /\ sessCall.failed > 0 => sessCall.outcome # "returned"

\* C22 (as claimed): close() on a session in any state, never connected,
\* connected or already closed, returns without raising and leaves the
\* session with its transport released.
C22_CloseIdempotent ==
    sessCall.op = "close" /\ sessCall.pc = "done" =>
        sessCall.outcome = "returned" /\ conn.cnx = "closed"

\* C23 (as claimed): in every terminal state of the run, all stages complete
\* or aborted, no session that was connected is still open.
C23_SessionsClosedAtExit == Terminal => \A c \in Conns : ~sess[c].cnx

\* ------------------------------------------------------- symlink.Force
\* The file system is three paths, each absent, a regular file, a directory
\* (empty or not) or a symlink; a symlink's target is one of the paths or a
\* name that does not exist.  Force is called with any source and linkName,
\* again and again.
MaxHops == 3

Sources == Paths \cup {"nowhere"}

Nodes ==
    {Absent, [kind |-> "file", to |-> ""], [kind |-> "dir", to |-> ""],
     [kind |-> "dir", to |-> "entries"]}
    \cup { [kind |-> "symlink", to |-> s] : s \in Sources }

SymlinkTo(s) == [kind |-> "symlink", to |-> s]

\* What a path names once symlinks are followed, at most n of them.
RECURSIVE Follow(_, _)
Follow(p, n) ==
    IF n = 0 \/ p \notin Paths THEN Absent
    ELSE IF fs[p].kind = "symlink" THEN Follow(fs[p].to, n - 1)
    ELSE fs[p]

\* os.path.lexists, os.path.islink, os.path.isfile
lexists(p) == fs[p].kind # "absent"
islink(p) == fs[p].kind = "symlink"
isfile(p) == Follow(p, MaxHops).kind = "file"

\* Faulty variant: whatever is at linkName is removed.
ClobbersAnything(p) == TRUE

\* if os.path.islink(linkName) or os.path.isfile(linkName)
Clobbers(p) == islink(p) \/ isfile(p)

SymlinkFrame == UNCHANGED << runVars, conn, sessCall, proc, waiter >>

ForceCall ==
    /\ force.pc \in {"idle", "done"}
    /\ \E s \in Sources, l \in Paths :
          force' = [pc |-> "lexists", source |-> s, linkName |-> l, result |-> "", was |-> fs]
    /\ UNCHANGED fs /\ SymlinkFrame

\* if not os.path.lexists(linkName): os.symlink(source, linkName); return
ForceCreate ==
    /\ force.pc = "lexists" /\ ~lexists(force.linkName)
    /\ fs' = [fs EXCEPT ![force.linkName] = SymlinkTo(force.source)]
    /\ force' = [force EXCEPT !.pc = "done", !.result = "returned"]
    /\ SymlinkFrame

\* os.remove(linkName)
ForceRemove ==
    /\ force.pc = "lexists" /\ lexists(force.linkName) /\ Clobbers(force.linkName)
    /\ fs' = [fs EXCEPT ![force.linkName] = Absent]
    /\ force' = [force EXCEPT !.pc = "removed"]
    /\ SymlinkFrame

\* os.symlink(source, linkName); return
ForceRelink ==
    /\ force.pc = "removed"
    /\ fs' = [fs EXCEPT ![force.linkName] = SymlinkTo(force.source)]
    /\ force' = [force EXCEPT !.pc = "done", !.result = "returned"]
    /\ SymlinkFrame

\* raise LinkError("Refusing to clobber " + linkName)
ForceRefuse ==
    /\ force.pc = "lexists" /\ lexists(force.linkName) /\ ~Clobbers(force.linkName)
    /\ force' = [force EXCEPT !.pc = "done", !.result = "LinkError"]
    /\ UNCHANGED fs /\ SymlinkFrame

InitSymlink ==
    /\ HarnessInit(Script, [c \in Conns |-> NoSession], NewStore, NewBranches)
    /\ SessionIdle /\ WaitIdle
    /\ fs \in [Paths -> Nodes]
    /\ force = NoForce

NextSymlink ==
    \/ ForceCall
    \/ ForceCreate
    \/ ForceRemove
    \/ ForceRelink
    \/ ForceRefuse

SpecSymlink == InitSymlink /\ [][NextSymlink]_vars

\* C24: when Force(source, linkName) has ended: if linkName did not exist,
\* was a regular file or was a symlink (dangling or not, to a file or to a
\* directory), Force returned and linkName is a symlink to source; if
\* linkName was a directory, LinkError was raised and the directory is as it
\* was.  No other path is touched.
C24_ForceClobbersAllButDirs ==
    force.pc = "done" =>
        LET old == force.was[force.linkName]
        IN /\ old.kind \in {"absent", "file", "symlink"} =>
                 force.result = "returned" /\ fs[force.linkName] = SymlinkTo(force.source)
           /\ old.kind = "dir" =>
                 force.result = "LinkError" /\ fs[force.linkName] = old
           /\ \A p \in Paths \ {force.linkName} : fs[p] = force.was[p]

\* Force has replaced a dangling symlink by a symlink to another source.
C24_Witness ==
    /\ force.pc = "done" /\ force.result = "returned"
    /\ force.was[force.linkName] = SymlinkTo("nowhere")
    /\ force.source # "nowhere"
    /\ fs[force.linkName] = SymlinkTo(force.source)

\* The workers that hold a dequeued item and have task_done() still ahead of
\* them, in the loop body or in the except clause.
Signalling == { w \in Workers : wk[w].pc \in {"run", "task_done", "exc_load", "exc_store", "exc_done"} }

\* C25 (as claimed, in finite-run form): every dequeued item gets its one
\* task_done(), on either path: the outstanding-task counter is the number of
\* items still queued plus the number of items whose worker has yet to call
\* task_done(), so no item is left counted with nobody to signal it.
C25_OneSignalPerItem == unfinished = Len(queue) + Cardinality(Signalling)

\* This step is worker w sending a statement, one of ops, on its connection.
Issues(w, ops) ==
    /\ wk[w].pc = "run"
    /\ CurStmt(wk[w]).op \in ops
    /\ sess[CurDc(wk[w])].cnx
    /\ wk'[w] # wk[w]

\* C26 (as amended): after a commit of a session was rejected on a branch,
\* the session sends no merge, and no further commit on that branch, before
\* it has re-bound its head with SET @@repo1_head=HASHOF(ref).  Creating a
\* branch from the stale head, and committing to that new branch, it does
\* without re-binding.
C26_NoRetryBeforeRebind ==
    [][\A w \in Workers :
          /\ Issues(w, {"merge"}) => rejectedOn[CurDc(wk[w])] = {}
          /\ Issues(w, {"commit"}) => CurStmt(wk[w]).ref \notin rejectedOn[CurDc(wk[w])]]_vars

\* A session whose commit on main was rejected has, without re-binding,
\* created feature and had its commit on feature accepted.
C26_Witness ==
    \E c \in Conns :
        /\ rejectedOn[c] = {"main"}
        /\ lastCreate[c].name = "feature" /\ lastCreate[c].err = ""
        /\ lastCas[c].branch = "feature" /\ lastCas[c].after # lastCas[c].before

\* C26 (as claimed): after a commit of a session was rejected, the session
\* sends no create-branch, commit or merge statement before it has re-bound
\* its head.
C26_RebindBeforeAnyRefStatement ==
    [][\A w \in Workers :
          Issues(w, {"create_branch", "commit", "merge"}) =>
              rejectedOn[CurDc(wk[w])] = {}]_vars

\* Session c's last create_branch made a new branch.
Created(c) == lastCreate[c].name # "" /\ lastCreate[c].err = "" /\ lastCreate[c].before = 0

\* C27 (as amended): a branch created by create_branch points, at the moment
\* of creation, at the creating session's head (@@repo1_head): a hash some
\* ref had when the session bound it, which need not be the current hash of
\* any ref.
C27_CreatedAtSessionHead ==
    \A c \in Conns :
        Created(c) =>
            /\ lastCreate[c].after = lastCreate[c].head
            /\ lastCreate[c].head # 0
            /\ \E a \in advances : a.to = lastCreate[c].head

\* feature was created at a hash no ref had at that moment: main had moved on
\* since the session bound its head.
C27_Witness ==
    \E c \in Conns :
        /\ Created(c)
        /\ lastCreate[c].after \notin lastCreate[c].refs
        /\ \E a \in advances : a.branch = "main" /\ a.from = lastCreate[c].after

\* C27 (as claimed): a branch created by create_branch points, at the moment
\* of creation, at the current hash of an existing ref.
C27_CreatedAtCurrentRefHash ==
    \A c \in Conns : Created(c) => lastCreate[c].after \in lastCreate[c].refs

\* wait_for_connection is over: it returned, or the caller exited with 1.
WaitOver == waiter.pc \in {"returned", "exit1"}

\* C28 (as amended): wait_for_connection returns normally only if the child
\* has connected and exited 0 by the time the caller reads its exit code
\* after the timed join; a child that still has no exit code then is
\* terminated and the caller exits non-zero; a child that exited non-zero
\* makes the caller exit non-zero; the child's connect returns (exit 0) only
\* after a successful attempt.
C28_ReturnsOnlyOnExitZeroAtCheck ==
    /\ waiter.pc = "returned" =>
          /\ waiter.sawExit = "0"
          /\ proc.pc = "exited" /\ proc.exitcode = "0" /\ proc.connected
    /\ waiter.pc = "exit1" => waiter.sawExit \in {"None", "nonzero"}
    /\ WaitOver /\ waiter.sawExit = "None" => proc.pc = "terminated" /\ ~proc.connected
    /\ WaitOver /\ waiter.sawExit = "nonzero" => waiter.pc = "exit1"
    /\ proc.exitcode = "0" <=> proc.connected
    /\ proc.connected => proc.attempts >= 1

\* The join timed out with the child still running, the child connected
\* before the exit code was read, and wait_for_connection returned.
C28_Witness ==
    /\ waiter.pc = "returned" /\ waiter.timedOut
    /\ proc.connected /\ proc.exitcode = "0"

\* C28 (as claimed): wait_for_connection returns normally only if the child
\* connected and exited 0 within timeout_ms; a child still running when the
\* timeout passes is terminated and the caller exits non-zero.
C28_ReturnsOnlyWithinTimeout ==
    /\ waiter.pc = "returned" => ~waiter.timedOut /\ proc.connected /\ proc.exitcode = "0"
    /\ WaitOver /\ waiter.timedOut => waiter.pc = "exit1" /\ proc.pc = "terminated"
    /\ WaitOver /\ waiter.sawExit = "nonzero" => waiter.pc = "exit1"

\* ------------------------------------------- the expected error is absent
\* duplicate_table_create beside create_tables: the duplicate CREATE TABLE
\* runs on a main that may not have the table yet, and then succeeds.
DupScript ==
    << << WorkItem(0, << "connect", "duplicate_table_create" >>),
          WorkItem(1, << "connect", "create_tables" >>) >>,
       << WorkItem(0, << "duplicate_table_create" >>) >> >>

InitDup == InitWith(DupScript)

WorkerNextDup(w) ==
    \/ WorkerGet(w)
    \/ ConnectOk(w)
    \/ ConnectFail(w)
    \/ QueryFault(w)
    \/ SetHeadQuery(w)
    \/ CreateTableQuery(w)
    \/ ExpectedErrorQuery(w)
    \/ TestResultsQuery(w)
    \/ CommitQuery(w)
    \/ WorkerTaskDone(w)
    \/ WorkerExceptLoad(w)
    \/ WorkerExceptStore(w)
    \/ WorkerExceptTaskDone(w)

NextDup ==
    \/ OrchBind
    \/ OrchPut
    \/ OrchJoin
    \/ OrchCheck
    \/ \E w \in Workers : WorkerNextDup(w)

SpecDup == InitDup /\ [][NextDup]_vars

\* non_error_msg of duplicate_table_create.
NON_ERROR_MSG == "Should have failed creating duplicate table"

\* The duplicate CREATE TABLE of session c executed successfully: the
\* session has the table in its working root although the commit it is
\* bound to has none (session 0 runs no other CREATE TABLE in DupScript).
CreatedUnexpectedly(c) ==
    /\ sess[c].cnx /\ sess[c].head # 0
    /\ sess[c].root.exists /\ ~commits[sess[c].head].tbl.exists

\* C29 (as claimed): when the statement passed to query_with_expected_error
\* executes successfully, an exception carrying non_error_msg is raised out
\* of the work function by that item.
C29_MissingErrorFailsItem ==
    CreatedUnexpectedly(0) =>
        \E e \in raised :
            /\ e.msg = NON_ERROR_MSG
            /\ ItemRec(e.by).dc = 0
            /\ ItemRec(e.by).work_funcs[e.fi] = "duplicate_table_create"

\* Worker record r stands at the re-bind of commit_and_update_branch: the
\* SET @@repo1_head=HASHOF(branch) that follows the UPDATE.
AtRebind(r) ==
    /\ r.pc = "run" /\ r.si > 1
    /\ CurStmt(r).op = "set_head"
    /\ Body(CurFunc(r))[r.si - 1].op = "commit"
    /\ Body(CurFunc(r))[r.si - 1].ref = CurStmt(r).ref

\* The step is worker w's commit statement, answered by the server with
\* row count rc.
CommitAnswered(w, rc) ==
    /\ Issues(w, {"commit"})
    /\ faults' = faults
    /\ lastCas'[CurDc(wk[w])].rc = rc
    /\ lastCas'[CurDc(wk[w])].err \in {"", UPDATE_BRANCH_FAIL_MSG}

\* The step is worker w's re-bind, and it returns.
RebindReturns(w) ==
    /\ Issues(w, {"set_head"})
    /\ AtRebind(wk[w])
    /\ wk'[w].pc # "exc_load"

\* The worker is still inside the same call of the same work function.
SameFunction(w) ==
    /\ wk'[w].pc = "run"
    /\ wk'[w].item = wk[w].item /\ wk'[w].fi = wk[w].fi

\* C30: a commit_and_update_branch whose UPDATE is accepted goes on to the
\* re-bind, and when the re-bind returns the session's head is the branch's
\* new hash, the one the commit installed; a commit_and_update_branch whose
\* UPDATE is rejected leaves the session's head as it was and leaves the
\* function without sending the re-bind.
C30_HeadFollowsCommit ==
    [][\A w \in Workers :
          LET c == CurDc(wk[w])
          IN /\ CommitAnswered(w, 1) =>
                   /\ SameFunction(w) /\ AtRebind(wk'[w])
                   /\ sess'[c].head = sess[c].head
             /\ RebindReturns(w) =>
                   /\ sess'[c].head = lastCas[c].after
                   /\ sess'[c].head = branches[CurStmt(wk[w]).ref]
             /\ CommitAnswered(w, 0) =>
                   /\ sess'[c].head = sess[c].head
                   /\ ~SameFunction(w)]_vars

\* One session has re-bound to the hash its accepted commit installed, and
\* another session's commit has been rejected with its head left where it
\* was, behind the branch.
C30_Witness ==
    \E c, d \in Conns :
        /\ lastCas[c].rc = 1 /\ lastCas[c].err = ""
        /\ sess[c].head = lastCas[c].after /\ sess[c].head # lastCas[c].head
        /\ lastCas[d].rc = 0 /\ lastCas[d].err = UPDATE_BRANCH_FAIL_MSG
        /\ sess[d].head = lastCas[d].head
        /\ sess[d].head # branches[lastCas[d].branch]

====
